---- MODULE Spec2Model ----
(***************************************************************************)
(* Model of src/src/visualize.py: Visualizer.create_episode_video (the     *)
(* rollout loop, its two exception handlers and the video writer) and      *)
(* main (the staged driver with optional inputs).                          *)
(*                                                                         *)
(* The environment, the agent and OpenCV are external: each call to them   *)
(* is a step whose outcome (a value or a raised exception) is chosen from  *)
(* a small set.  Rewards are counted in quarters (4 = 1.0), so that every  *)
(* value is exact in binary floating point and ':.1f' is decided exactly.  *)
(***************************************************************************)
EXTENDS Integers, Sequences, FiniteSets, TLC

\* ------------------------------------------------------------------ bounds
\* The environment ends the episode (terminated, truncated or an exception)
\* at the latest on its MaxSteps-th step() call.
MaxSteps == 3

\* ------------------------------------------------------------- input sets
Null == "None"
\* info as returned by reset()/step(): a mapping with the overlay keys, or None
InfoValues == {"valid", Null}
\* rewards in quarters: 1.0, -0.5, 2.25
RewardValues == {4, -2, 9}
\* frame.shape[0:2] = (height, width)
FrameShapes == {<<2, 3>>, <<4, 3>>}

VARIABLES
    \* ---- create_episode_video
    pc,            \* position in create_episode_video
    info,          \* local info
    done,          \* local done
    truncated,     \* local truncated
    total_reward,  \* local total_reward (quarters)
    frame,         \* local frame: NoFrame or the frame render() returned
    frames,        \* local frames
    out,           \* the writer: "unbound" (no local 'out'), "open", "released"
    outSize,       \* the (width, height) the writer was opened with
    written,       \* frames passed to out.write, in order
    message,       \* what create_episode_video printed last at its end
    \* ---- history of the calls made (observation only)
    rewards,       \* rewards returned by the step() calls that completed
    calls,         \* number of calls: render, renderNull, select, step, open
    abort,         \* which call raised inside the loop ("none" if none)
    fault,         \* which call raised outside the loop ("none" if none)
    iterInfoNull,  \* info was None when the current iteration began
    \* ---- main
    mainPc,        \* position in main
    args,          \* which inputs of main are present
    save_dir,      \* main's save_dir: "None", "given" or "derived"
    stages,        \* stages main has run
    skipped,       \* stages main has skipped with a message
    mainFault      \* what made main raise ("none" if nothing)

videoVars == <<pc, info, done, truncated, total_reward, frame, frames, out,
               outSize, written, message, rewards, calls, abort, fault,
               iterInfoNull>>
mainVars == <<mainPc, args, save_dir, stages, skipped, mainFault>>
vars == <<videoVars, mainVars>>

\* ----------------------------------------------------------------- helpers
RECURSIVE SumSeq(_)
SumSeq(s) == IF s = <<>> THEN 0 ELSE s[1] + SumSeq(Tail(s))

Abs(x) == IF x < 0 THEN -x ELSE x

\* f'{x:.1f}' for x = q quarters: the nearest tenth, ties to even (the value
\* is exact in binary, so the tie is a real tie); the result is in tenths.
FormatTenths(q) ==
    LET a == Abs(q) * 10
        f == a \div 4
        r == a % 4
        m == IF r < 2 THEN f
             ELSE IF r > 2 THEN f + 1
             ELSE IF f % 2 = 0 THEN f ELSE f + 1
    IN  IF q < 0 THEN -m ELSE m

\* env.render() returning None
NoFrame == [shape |-> <<0, 0>>, order |-> "None", seq |-> 0]

\* mutant: the test 'frame is not None' dropped
IsNoneNever(f) == FALSE

\* line 77: frame is None
IsNone(f) == f.order = "None"

\* env.render() returning a frame: an RGB array of the given shape
RenderedFrame(shape, n) == [shape |-> shape, order |-> "RGB", seq |-> n]

\* lines 78-87: cvtColor to BGR, then the four putText overlays
AnnotatedFrame(f, inf, total) ==
    [shape |-> f.shape, order |-> "BGR", seq |-> f.seq,
     health |-> inf, reward |-> FormatTenths(total)]

\* mutant: frames = [frame], the list restarted at every frame
AppendedKeepsLast(fs, f) == <<f>>

\* line 89: frames.append(frame)
Appended(fs, f) == Append(fs, f)

\* line 104: if frames:
HasFrames(fs) == fs # <<>>

\* mutant: out.write(frames[0]) for every frame
NextFrameFirst(fs, w) == fs[1]

\* lines 109-110: the frame the for loop passes to out.write next
NextFrame(fs, w) == fs[Len(w) + 1]

\* mutant: the handler does not release the writer
ReleasedInHandlerSkipped(o) == o

\* lines 120-121: if 'out' in locals(): out.release()
ReleasedInHandler(o) == IF o # "unbound" THEN "released" ELSE o

\* line 105, 107: height, width, _ = frames[0].shape; the writer gets (width, height)
WriterSize(shape) == <<shape[2], shape[1]>>

\* ------------------------------------------------------ exception routing
InnerTry == {"render", "annotate", "fallback", "select", "step"}
OuterTry == InnerTry \cup {"reset", "open", "write"}

\* mutant: continue instead of break
InnerExceptTargetContinue == "while"

\* where the inner handler (lines 100-102) sends control: break
InnerExceptTarget == "finalize"

\* mutant: env.step() called outside the inner try
HandlerStepOutside(site) ==
    IF site \in InnerTry \ {"step"} THEN "inner"
    ELSE IF site \in OuterTry THEN "outer"
    ELSE "caller"

\* the handler an exception raised at 'site' reaches
Handler(site) ==
    IF site \in InnerTry THEN "inner"
    ELSE IF site \in OuterTry THEN "outer"
    ELSE "caller"

\* the state change of raising at 'site' (pc, abort, fault)
Raise(site) ==
    CASE Handler(site) = "inner" ->
            /\ pc' = InnerExceptTarget
            /\ abort' = site
            /\ fault' = fault
      [] Handler(site) = "outer" ->
            /\ pc' = "except"
            /\ fault' = site
            /\ abort' = abort
      [] OTHER ->
            /\ pc' = "raised"
            /\ fault' = site
            /\ abort' = abort

Bump(field) == [calls EXCEPT ![field] = @ + 1]

\* ---------------------------------------------------- create_episode_video
VideoInit ==
    /\ pc = "reset"
    /\ info = Null
    /\ done = FALSE
    /\ truncated = FALSE
    /\ total_reward = 0
    /\ frame = NoFrame
    /\ frames = <<>>
    /\ out = "unbound"
    /\ outSize = <<0, 0>>
    /\ written = <<>>
    /\ message = "none"
    /\ rewards = <<>>
    /\ calls = [render |-> 0, renderNull |-> 0, select |-> 0, step |-> 0, open |-> 0]
    /\ abort = "none"
    /\ fault = "none"
    /\ iterInfoNull = FALSE

\* lines 67-72: import cv2; frames = []; state, info = env.reset(); ...
Reset ==
    /\ pc = "reset"
    /\ \/ /\ \E i \in InfoValues : info' = i
          /\ pc' = "while"
          /\ UNCHANGED <<abort, fault>>
       \/ /\ Raise("reset")
          /\ UNCHANGED info
    /\ UNCHANGED <<done, truncated, total_reward, frame, frames, out, outSize,
                   written, message, rewards, calls, iterInfoNull, mainVars>>

\* line 74: while not (done or truncated)
While ==
    /\ pc = "while"
    /\ IF done \/ truncated
         THEN pc' = "finalize" /\ UNCHANGED iterInfoNull
         ELSE pc' = "render" /\ iterInfoNull' = (info = Null)
    /\ UNCHANGED <<info, done, truncated, total_reward, frame, frames, out,
                   outSize, written, message, rewards, calls, abort, fault,
                   mainVars>>

\* line 76: frame = env.render()
Render ==
    /\ pc = "render"
    /\ \/ /\ \E s \in FrameShapes : frame' = RenderedFrame(s, calls.render + 1)
          /\ calls' = Bump("render")
          /\ pc' = "annotate"
          /\ UNCHANGED <<abort, fault>>
       \/ /\ frame' = NoFrame
          /\ calls' = [calls EXCEPT !.render = @ + 1, !.renderNull = @ + 1]
          /\ pc' = "annotate"
          /\ UNCHANGED <<abort, fault>>
       \/ /\ calls' = Bump("render")
          /\ Raise("render")
          /\ UNCHANGED frame
    /\ UNCHANGED <<info, done, truncated, total_reward, frames, out, outSize,
                   written, message, rewards, iterInfoNull, mainVars>>

\* lines 77-89: if frame is not None: annotate it and frames.append(frame)
\* info["health"] raises TypeError when info is None
Annotate ==
    /\ pc = "annotate"
    /\ IF IsNone(frame)
         THEN /\ pc' = "infocheck"
              /\ UNCHANGED <<frames, frame, abort, fault>>
         ELSE IF info = Null
         THEN /\ Raise("annotate")
              /\ UNCHANGED <<frames, frame>>
         ELSE /\ frame' = AnnotatedFrame(frame, info, total_reward)
              /\ frames' = Appended(frames, frame')
              /\ pc' = "infocheck"
              /\ UNCHANGED <<abort, fault>>
    /\ UNCHANGED <<info, done, truncated, total_reward, out, outSize, written,
                   message, rewards, calls, iterInfoNull, mainVars>>

\* lines 91-92: if info is None: info = env.unwrapped._get_info()
InfoCheck ==
    /\ pc = "infocheck"
    /\ IF info = Null
         THEN \/ /\ info' = "valid"
                 /\ pc' = "select"
                 /\ UNCHANGED <<abort, fault>>
              \/ /\ Raise("fallback")
                 /\ UNCHANGED info
         ELSE /\ pc' = "select"
              /\ UNCHANGED <<info, abort, fault>>
    /\ UNCHANGED <<done, truncated, total_reward, frame, frames, out, outSize,
                   written, message, rewards, calls, iterInfoNull, mainVars>>

\* line 94: action = agent.select_action(state, info=info, training=False)
SelectAction ==
    /\ pc = "select"
    /\ calls' = Bump("select")
    /\ \/ /\ pc' = "step"
          /\ UNCHANGED <<abort, fault>>
       \/ Raise("select")
    /\ UNCHANGED <<info, done, truncated, total_reward, frame, frames, out,
                   outSize, written, message, rewards, iterInfoNull, mainVars>>

\* mutant: total_reward = reward
AccumulateLast(total, reward) == reward

\* line 96: total_reward += reward
Accumulate(total, reward) == total + reward

\* lines 95-99: next_state, reward, done, truncated, next_info = env.step(action)
\*              total_reward += reward; state = next_state; info = next_info
Step ==
    /\ pc = "step"
    /\ calls' = Bump("step")
    /\ \/ \E r \in RewardValues, d \in BOOLEAN, t \in BOOLEAN, ni \in InfoValues :
            /\ (calls.step + 1 >= MaxSteps) => (d \/ t)
            /\ total_reward' = Accumulate(total_reward, r)
            /\ rewards' = Append(rewards, r)
            /\ done' = d
            /\ truncated' = t
            /\ info' = ni
            /\ pc' = "while"
            /\ UNCHANGED <<abort, fault>>
       \/ /\ Raise("step")
          /\ UNCHANGED <<total_reward, rewards, done, truncated, info>>
    /\ UNCHANGED <<frame, frames, out, outSize, written, message,
                   iterInfoNull, mainVars>>

\* lines 104-107, 115-116: if frames: open the writer; else: report no frames
Finalize ==
    /\ pc = "finalize"
    /\ IF HasFrames(frames)
         THEN /\ calls' = Bump("open")
              /\ \/ /\ out' = "open"
                    /\ outSize' = WriterSize(frames[1].shape)
                    /\ pc' = "write"
                    /\ UNCHANGED <<abort, fault, message>>
                 \/ /\ Raise("open")
                    /\ UNCHANGED <<out, outSize, message>>
         ELSE /\ message' = "noframes"
              /\ pc' = "return"
              /\ UNCHANGED <<out, outSize, calls, abort, fault>>
    /\ UNCHANGED <<info, done, truncated, total_reward, frame, frames, written,
                   rewards, iterInfoNull, mainVars>>

\* lines 109-110: for frame in frames: out.write(frame)
Write ==
    /\ pc = "write"
    /\ IF Len(written) < Len(frames)
         THEN \/ /\ written' = Append(written, NextFrame(frames, written))
                 /\ UNCHANGED <<pc, abort, fault>>
              \/ /\ Raise("write")
                 /\ UNCHANGED written
         ELSE /\ pc' = "release"
              /\ UNCHANGED <<written, abort, fault>>
    /\ UNCHANGED <<info, done, truncated, total_reward, frame, frames, out,
                   outSize, message, rewards, calls, iterInfoNull, mainVars>>

\* lines 112-113: out.release(); print("Video saved to: ...")
Release ==
    /\ pc = "release"
    /\ out' = "released"
    /\ message' = "saved"
    /\ pc' = "return"
    /\ UNCHANGED <<info, done, truncated, total_reward, frame, frames, outSize,
                   written, rewards, calls, abort, fault, iterInfoNull, mainVars>>

\* lines 118-121: except Exception: print warning; if 'out' in locals(): out.release()
OuterExcept ==
    /\ pc = "except"
    /\ message' = "failed"
    /\ out' = ReleasedInHandler(out)
    /\ pc' = "return"
    /\ UNCHANGED <<info, done, truncated, total_reward, frame, frames, outSize,
                   written, rewards, calls, abort, fault, iterInfoNull, mainVars>>

VideoNext ==
    \/ Reset
    \/ While
    \/ Render
    \/ Annotate
    \/ InfoCheck
    \/ SelectAction
    \/ Step
    \/ Finalize
    \/ Write
    \/ Release
    \/ OuterExcept

\* -------------------------------------------------------------------- main
\* an input x is 'present' when the code's test 'x and os.path.exists(x)' holds
\* (tensorboard, eval, model) or when it is not None (save_dir, timestamp)
ArgSets == [tensorboard : BOOLEAN, eval : BOOLEAN, model : BOOLEAN,
            save_dir : BOOLEAN, timestamp : BOOLEAN]

MainArgs ==
    /\ mainPc = "config"
    /\ args \in ArgSets
    /\ save_dir = IF args.save_dir THEN "given" ELSE "None"
    /\ stages = {}
    /\ skipped = {}
    /\ mainFault = "none"

\* main raises: nothing in main catches
MainRaise(cause) ==
    /\ mainPc' = "raised"
    /\ mainFault' = cause

\* lines 213-214: if save_dir is None and timestamp is not None: derive it
DeriveSaveDir(sd, ts) == IF sd = "None" /\ ts THEN "derived" ELSE sd

\* lines 16-18: os.makedirs(self.save_dir, exist_ok=True) accepts a path, not None
MakeDirsAccepts(sd) == sd # "None"

\* lines 206-212: load the config from the evaluation results, or the default
LoadConfig ==
    /\ mainPc = "config"
    /\ IF args.eval
         THEN \/ /\ mainPc' = "savedir"
                 /\ stages' = stages \cup {"config"}
                 /\ UNCHANGED <<skipped, mainFault>>
              \/ /\ MainRaise("malformed eval")
                 /\ UNCHANGED <<stages, skipped>>
         ELSE /\ mainPc' = "savedir"
              /\ skipped' = skipped \cup {"config"}
              /\ UNCHANGED <<stages, mainFault>>
    /\ UNCHANGED <<args, save_dir, videoVars>>

\* lines 213-217: derive save_dir, Visualizer(save_dir), grid_size
MakeVisualizer ==
    /\ mainPc = "savedir"
    /\ save_dir' = DeriveSaveDir(save_dir, args.timestamp)
    /\ IF MakeDirsAccepts(save_dir')
         THEN /\ mainPc' = "curves"
              /\ UNCHANGED mainFault
         ELSE MainRaise("makedirs")
    /\ UNCHANGED <<args, stages, skipped, videoVars>>

\* lines 219-223: plot_training_curves, or skip it
TrainingCurves ==
    /\ mainPc = "curves"
    /\ IF args.tensorboard
         THEN \/ /\ mainPc' = "evalplots"
                 /\ stages' = stages \cup {"curves"}
                 /\ UNCHANGED <<skipped, mainFault>>
              \/ /\ MainRaise("malformed log")
                 /\ UNCHANGED <<stages, skipped>>
         ELSE /\ mainPc' = "evalplots"
              /\ skipped' = skipped \cup {"curves"}
              /\ UNCHANGED <<stages, mainFault>>
    /\ UNCHANGED <<args, save_dir, videoVars>>

\* lines 225-230: plot_action_distribution and plot_state_heatmap, or skip both
EvalPlots ==
    /\ mainPc = "evalplots"
    /\ IF args.eval
         THEN \/ /\ mainPc' = "model"
                 /\ stages' = stages \cup {"actions", "heatmap"}
                 /\ UNCHANGED <<skipped, mainFault>>
              \/ /\ MainRaise("malformed eval")
                 /\ UNCHANGED <<stages, skipped>>
         ELSE /\ mainPc' = "model"
              /\ skipped' = skipped \cup {"actions", "heatmap"}
              /\ UNCHANGED <<stages, mainFault>>
    /\ UNCHANGED <<args, save_dir, videoVars>>

\* lines 232-255: if the model is there: gym.make, DQNAgent, agent.load
LoadModel ==
    /\ mainPc = "model"
    /\ IF args.model
         THEN \/ /\ mainPc' = "video"
                 /\ UNCHANGED mainFault
              \/ MainRaise("malformed model")
         ELSE /\ mainPc' = "final"
              /\ UNCHANGED mainFault
    /\ skipped' = IF args.model THEN skipped ELSE skipped \cup {"video", "value"}
    /\ UNCHANGED <<args, save_dir, stages, videoVars>>

\* lines 257-258: visualizer.create_episode_video(env, agent, video_path), which
\* returns after printing one of its three final messages
CallCreateEpisodeVideo ==
    /\ mainPc = "video"
    /\ \E m \in {"saved", "noframes", "failed"} : message' = m
    /\ stages' = stages \cup {"video"}
    /\ mainPc' = "value"
    /\ UNCHANGED <<args, save_dir, skipped, mainFault>>
    /\ UNCHANGED <<pc, info, done, truncated, total_reward, frame, frames, out,
                   outSize, written, rewards, calls, abort, fault, iterInfoNull>>

\* lines 260-264: visualize_value_function; env.close()
ValueFunction ==
    /\ mainPc = "value"
    /\ \/ /\ mainPc' = "final"
          /\ stages' = stages \cup {"value"}
          /\ UNCHANGED mainFault
       \/ /\ MainRaise("malformed model")
          /\ UNCHANGED stages
    /\ UNCHANGED <<args, save_dir, skipped, videoVars>>

\* line 266: print("Visualizations saved to: ...")
FinalMessage ==
    /\ mainPc = "final"
    /\ mainPc' = "done"
    /\ UNCHANGED <<args, save_dir, stages, skipped, mainFault, videoVars>>

MainNext ==
    \/ LoadConfig
    \/ MakeVisualizer
    \/ TrainingCurves
    \/ EvalPlots
    \/ LoadModel
    \/ CallCreateEpisodeVideo
    \/ ValueFunction
    \/ FinalMessage

\* main started with any combination of inputs; create_episode_video not yet called
MainInit == VideoInit /\ MainArgs
MainSpec == MainInit /\ [][MainNext]_vars

\* create_episode_video called directly: main is not running
MainIdle ==
    /\ mainPc = "idle"
    /\ args = [tensorboard |-> FALSE, eval |-> FALSE, model |-> FALSE,
               save_dir |-> FALSE, timestamp |-> FALSE]
    /\ save_dir = "None"
    /\ stages = {}
    /\ skipped = {}
    /\ mainFault = "none"

Init == VideoInit /\ MainIdle
Next == VideoNext
Spec == Init /\ [][Next]_vars

\* ================================================================= claims
AfterLoop == pc \in {"finalize", "write", "release", "except", "return"}
LoopSites == {"render", "annotate", "fallback", "select", "step"}
\* an exception was raised by a call made inside the rollout loop
RaisedInLoop == abort \in LoopSites \/ fault \in LoopSites
\* every render() call so far returned a frame / returned None
AllRendersFrames == calls.renderNull = 0 /\ abort # "render" /\ fault # "render"
AllRendersNone == calls.render >= 1 /\ calls.renderNull = calls.render
IsPrefix(a, b) == Len(a) <= Len(b) /\ \A i \in 1..Len(a) : a[i] = b[i]

\* C1 as stated: render() always returns a frame and step() raises on its
\* K-th call (K >= 2): exactly K-1 frames are collected and written.
C1_Original ==
    (pc = "return" /\ AllRendersFrames /\ abort = "step" /\ calls.step >= 2
        /\ fault = "none")
    => (Len(frames) = calls.step - 1 /\ written = frames)

\* C1 amended: render() always returns a frame and step() raises on its K-th
\* call (K >= 2): exactly K frames are collected (the K-th iteration collects
\* its frame before step() raises), and when neither opening the writer nor
\* a write raises, exactly those K frames are written.
C1_EarlyAbortSalvage ==
    (AllRendersFrames /\ abort = "step" /\ calls.step >= 2)
    => /\ Len(frames) = calls.step
       /\ AfterLoop
       /\ (pc = "return" /\ fault = "none")
            => (written = frames /\ message = "saved")

C1_Witness ==
    /\ pc = "return" /\ AllRendersFrames /\ abort = "step" /\ calls.step = 2
    /\ fault = "none" /\ Len(written) = 2

\* C2: render() always returns a frame, info is always a mapping, no
\* exception is raised and step() first reports terminated or truncated on
\* its N-th call: exactly N frames are collected and N frames are written.
C2_FrameCount ==
    (AllRendersFrames /\ abort = "none" /\ fault = "none")
    => /\ (pc \in {"while", "finalize", "write", "release", "return"})
            => Len(frames) = calls.step
       /\ (pc = "return")
            => /\ (done \/ truncated)
               /\ calls.step >= 1
               /\ written = frames
               /\ Len(written) = calls.step

C2_Witness ==
    /\ pc = "return" /\ AllRendersFrames /\ abort = "none" /\ fault = "none"
    /\ calls.step = 3 /\ Len(written) = 3 /\ truncated /\ ~done

\* C3: when render() returns None on every call, however the loop ends, no
\* writer is opened, no frame is written, no file is produced, and the
\* function ends reporting that no frames were captured, without raising.
C3_ZeroFrames ==
    AllRendersNone
    => /\ frames = <<>>
       /\ out = "unbound"
       /\ calls.open = 0
       /\ written = <<>>
       /\ pc \notin {"except", "raised"}
       /\ (pc = "return") => message = "noframes"

C3_Witness ==
    /\ pc = "return" /\ AllRendersNone /\ calls.render = 2 /\ abort = "step"
    /\ message = "noframes"

\* C4: on every exit path on which a writer was opened, it has been
\* released when create_episode_video returns.
C4_WriterReleased ==
    (pc \in {"return", "raised"}) => out # "open"

C4_Witness ==
    /\ pc = "return" /\ fault = "write" /\ out = "released"
    /\ abort = "select" /\ Len(written) = 1 /\ Len(frames) = 2

\* C5 as stated: an iteration that begins with info None recovers info
\* through the fallback accessor and goes on to select an action and step;
\* a None info never ends the episode, also when render() returned a frame.
C5_InfoNullRecovery ==
    iterInfoNull
    => /\ abort # "annotate"
       /\ (pc \in {"select", "step"}) => info # Null

\* C6: when render(), the annotation, select_action() or step() raises in an
\* iteration, (i) no further render(), select_action() or step() call is
\* made and no frame is added, (ii) finalization runs on the frames
\* collected so far, (iii) nothing propagates to the caller.
C6_StatePart ==
    /\ pc # "raised"
    /\ RaisedInLoop
        => /\ AfterLoop
           /\ abort \in LoopSites
           /\ (pc = "return")
                => \/ frames = <<>> /\ message = "noframes"
                   \/ /\ frames # <<>> /\ calls.open = 1
                      /\ (fault = "none") => (written = frames /\ message = "saved")

C6_ActionPart ==
    RaisedInLoop
    => /\ calls'.render = calls.render
       /\ calls'.select = calls.select
       /\ calls'.step = calls.step
       /\ frames' = frames

C6_FailureContainment == [](C6_StatePart) /\ [][C6_ActionPart]_vars

C6_Witness ==
    /\ pc = "return" /\ abort = "select" /\ calls.step = 1 /\ Len(frames) = 2
    /\ written = frames /\ message = "saved"

\* C7: total_reward is always the sum of the rewards of the step() calls that
\* completed; the Reward overlaid on the frame of iteration i is the (':.1f'
\* formatted) sum of the rewards of steps 1..i-1.
C7_RewardAccumulation ==
    /\ total_reward = SumSeq(rewards)
    /\ Len(rewards) <= calls.step
    /\ \A i \in 1..Len(frames) :
          /\ frames[i].seq - 1 <= Len(rewards)
          /\ frames[i].reward =
                FormatTenths(SumSeq(SubSeq(rewards, 1, frames[i].seq - 1)))

C7_Witness ==
    /\ pc = "return" /\ rewards = <<4, -2, 9>> /\ total_reward = 11
    /\ Len(frames) = 3 /\ frames[3].reward = 5 /\ frames[2].reward = 10

\* C8 as stated: for every combination of present and absent inputs, main
\* reaches its final message; it raises only when an input that is present
\* is itself malformed.
C8_MissingInputsNeverFatal ==
    (mainPc = "raised")
    => mainFault \in {"malformed eval", "malformed log", "malformed model"}

\* C9 as stated: the writer is opened with the (width, height) of the first
\* collected frame and every frame passed to it has those dimensions.
C9_ResolutionConsistency ==
    (out # "unbound")
    => /\ outSize = WriterSize(frames[1].shape)
       /\ \A i \in 1..Len(written) : WriterSize(written[i].shape) = outSize

\* C10: the writer is opened at most once and only after the loop has
\* ended, the frames written are always the first frames collected, in
\* order and once each, nothing is written after the release, and when
\* neither the open nor a write raises every collected frame is written
\* before the release.
C10_StatePart ==
    /\ calls.open <= 1
    /\ (calls.open = 1 \/ out # "unbound" \/ written # <<>>)
         => (pc \in {"write", "release", "except", "return"} /\ frames # <<>>)
    /\ (out = "open") => calls.open = 1
    /\ IsPrefix(written, frames)
    /\ \A i, j \in 1..Len(written) : (written[i] = written[j]) => i = j
    /\ (out = "released" /\ fault = "none") => written = frames
    /\ (pc = "return" /\ frames # <<>> /\ fault = "none")
         => (calls.open = 1 /\ out = "released" /\ written = frames)

C10_ActionPart ==
    /\ (out = "released") => (written' = written /\ out' = "released")
    /\ (pc \notin {"write"}) => written' = written
    /\ (pc \notin {"finalize"}) => calls'.open = calls.open

C10_FinalizationOrdering == [](C10_StatePart) /\ [][C10_ActionPart]_vars

C10_Witness ==
    /\ pc = "return" /\ Len(frames) = 3 /\ written = frames
    /\ out = "released" /\ calls.open = 1 /\ message = "saved"
====
